---- MODULE Spec2Model ----
(***************************************************************************)
(* A model of the HTTP request processor of rtreacy87/http-server:         *)
(* the request parser (http_parser.c, parse_http_request_supplement.c),    *)
(* the router (router.c), the static resource resolver (file_server.c,     *)
(* build_file_path_supplement.c, serve_static_file_supplement.c), the      *)
(* response serializer (send_http_response_supplement.c) and the           *)
(* per-connection driver handle_request (server.c).                        *)
(*                                                                         *)
(* C strings are TLA+ strings; a char* into a string is a 1-based index    *)
(* and 0 is the NULL pointer.  A heap buffer pointer (http body) is NULL   *)
(* or Buf(bytes).                                                          *)
(***************************************************************************)
EXTENDS Integers, Sequences, FiniteSets, TLC

VARIABLES
    routes,        \* router.c: route_t routes[MAX_ROUTES], the slots written so far
    route_count,   \* router.c: int route_count
    pc,            \* "idle" | "called" (arguments chosen, call pending) | "returned"
    op,            \* the public function last called
    raw_request,   \* argument of handle_request / parse_http_request
    uri_arg,       \* argument of serve_static_file
    env,           \* what the filesystem answers during the call
    parse_result,  \* return value of parse_http_request (0, -1; 1 = not called)
    request,       \* the http_request_t the call filled in
    response,      \* the http_response_t the handler left and the serializer was given
    wire,          \* the write(client_fd, ...) calls in order, one string per call
    invoked,       \* handlers invoked by the call, in order
    fs_calls,      \* filesystem calls (stat, open, read) made by the call, in order
    freed,         \* body buffers handed to free() by the destructors, in order
    registered,    \* history: the arguments of every register_route call, in order
    heap           \* history: what the call did with body buffers, in program order:
                   \* "alloc" (malloc, strdup), "use" (the read by write), "free", and
                   \* "enter" (a destructor entered, buf = the body pointer it found)

vars == <<routes, route_count, pc, op, raw_request, uri_arg, env, parse_result,
          request, response, wire, invoked, fs_calls, freed, registered, heap>>

(***************************************************************************)
(* Program constants (include/http.h, include/router.h, file_server.c)     *)
(***************************************************************************)
MAX_HEADERS == 50
MAX_HEADER_SIZE == 256
MAX_URI_SIZE == 1024
MAX_METHOD_SIZE == 16
MAX_VERSION_SIZE == 16
MAX_ROUTES == 50
DOCUMENT_ROOT == "./static"

(***************************************************************************)
(* Bounds of the model                                                     *)
(***************************************************************************)
\* header lines per enumerated header block (longer blocks are the fixed
\* MAX_HEADERS / MAX_HEADERS+1 blocks below)
MaxHeaderLines == 2
\* register_route calls explored by the server specification
MaxRegistrations == 2
\* register_route calls made in the router specification (past MAX_ROUTES)
MaxRegisterCalls == 52
\* calls of one destructor on one instance
MaxDestructorCalls == 2

(***************************************************************************)
(* C string primitives                                                     *)
(***************************************************************************)
NULL == <<>>
Buf(bytes) == <<bytes>>
Bytes(buf) == buf[1]

CharAt(s, i) == SubSeq(s, i, i)

MinOf(S) == CHOOSE i \in S : \A j \in S : i <= j

\* strstr(s + from - 1, pat): index of the first occurrence at or after from, 0 if none
strstrFrom(s, from, pat) ==
    LET hits == {i \in from..(Len(s) - Len(pat) + 1) : SubSeq(s, i, i + Len(pat) - 1) = pat}
    IN  IF hits = {} THEN 0 ELSE MinOf(hits)

strstr(s, pat) == strstrFrom(s, 1, pat)

\* strchr(s + from - 1, c)
strchr(s, from, c) == strstrFrom(s, from, c)

\* strrchr(s, c)
strrchr(s, c) ==
    LET hits == {i \in 1..Len(s) : CharAt(s, i) = c}
    IN  IF hits = {} THEN 0 ELSE CHOOSE i \in hits : \A j \in hits : j <= i

\* strncpy(dst, src, n) into a zero-filled dst of more than n bytes
strncpy(src, n) == IF Len(src) <= n THEN src ELSE SubSeq(src, 1, n)

\* one strtok(.., " ") call scanning line from index pos: the token found (start = 0:
\* strtok returned NULL) and the index the next call scans from
strtok(line, pos) ==
    LET starts == {i \in pos..Len(line) : CharAt(line, i) # " "}
    IN  IF starts = {} THEN [start |-> 0, token |-> "", next |-> Len(line) + 1]
        ELSE LET s == MinOf(starts)
                 ends == {i \in s..Len(line) : CharAt(line, i) = " "}
                 e == IF ends = {} THEN Len(line) + 1 ELSE MinOf(ends)
             IN  [start |-> s, token |-> SubSeq(line, s, e - 1), next |-> e + 1]

(***************************************************************************)
(* Message model (http_parser.c)                                           *)
(***************************************************************************)
init_http_request ==
    [method |-> "", uri |-> "", version |-> "", headers |-> <<>>, header_count |-> 0,
     body |-> NULL, body_length |-> 0]

init_http_response ==
    [status_code |-> 200, headers |-> <<>>, header_count |-> 0,
     body |-> NULL, body_length |-> 0]

\* free_http_request(request): *request after it and the buffers it frees
free_http_request(req) ==
    [request |-> [req EXCEPT !.body = NULL],
     freed |-> IF req.body # NULL THEN <<req.body>> ELSE <<>>]

\* free_http_response freeing the body and leaving the pointer as it was
free_http_response_keeps_pointer(resp) ==
    [response |-> resp,
     freed |-> IF resp.body # NULL THEN <<resp.body>> ELSE <<>>]

\* free_http_response(response): *response after it and the buffers it frees
free_http_response(resp) ==
    [response |-> [resp EXCEPT !.body = NULL],
     freed |-> IF resp.body # NULL THEN <<resp.body>> ELSE <<>>]

\* the heap history of one allocation: the buffer and the function that made it
allocated(buf, by) == <<[ev |-> "alloc", buf |-> buf, by |-> by]>>

\* the heap history of a destructor call: its entry with the pointer it found, then
\* the free() calls it made
destructor_call(by, body, frees) ==
    <<[ev |-> "enter", buf |-> body, by |-> by]>>
    \o [k \in 1..Len(frees) |-> [ev |-> "free", buf |-> frees[k], by |-> by]]

(***************************************************************************)
(* Request parser (parse_http_request_supplement.c, http_parser.c)          *)
(***************************************************************************)
\* find_header_end with the end of the buffer standing in for a missing blank line
find_header_end_or_end_of_buffer(raw) ==
    LET p == strstr(raw, "\r\n\r\n")
        q == strstr(raw, "\n\n")
    IN  IF p # 0 THEN p ELSE IF q # 0 THEN q ELSE Len(raw) + 1

find_header_end(raw) ==
    LET p == strstr(raw, "\r\n\r\n")
    IN  IF p # 0 THEN p ELSE strstr(raw, "\n\n")

find_request_line_end(raw) == strchr(raw, 1, "\n")

\* copy_line(start, end): the bytes [start, end) with one trailing \r removed
copy_line(raw, start, end) ==
    LET line == SubSeq(raw, start, end - 1)
    IN  IF Len(line) > 0 /\ CharAt(line, Len(line)) = "\r"
        THEN SubSeq(line, 1, Len(line) - 1) ELSE line

\* index of the first byte of s at or after i that is neither space nor tab
skip_blanks(s, i) ==
    LET rest == {j \in i..Len(s) : CharAt(s, j) \notin {" ", "\t"}}
    IN  IF rest = {} THEN Len(s) + 1 ELSE MinOf(rest)

\* parse_header(header_line, request): result -1 / 0 and the headers after it
parse_header(header_line, headers) ==
    IF Len(headers) >= MAX_HEADERS THEN [result |-> -1, headers |-> headers]
    ELSE LET colon == strchr(header_line, 1, ":")
         IN  IF colon = 0 THEN [result |-> -1, headers |-> headers]
             ELSE LET key == SubSeq(header_line, 1, colon - 1)
                      value == SubSeq(header_line, skip_blanks(header_line, colon + 1),
                                      Len(header_line))
                  IN  [result |-> 0,
                       headers |-> Append(headers, <<strncpy(key, MAX_HEADER_SIZE - 1),
                                                     strncpy(value, MAX_HEADER_SIZE - 1)>>)]

\* the header loop of parse_http_request (http_parser.c:73-101)
RECURSIVE parse_headers(_, _, _, _)
parse_headers(raw, current, header_end, headers) ==
    IF ~(current < header_end /\ Len(headers) < MAX_HEADERS)
    THEN [result |-> 0, headers |-> headers]
    ELSE LET line_end == strchr(raw, current, "\n")
         IN  IF line_end = 0 THEN [result |-> 0, headers |-> headers]
             ELSE IF line_end - current <= 1 THEN [result |-> 0, headers |-> headers]
             ELSE LET r == parse_header(copy_line(raw, current, line_end), headers)
                  IN  IF r.result # 0 THEN r
                      ELSE parse_headers(raw, line_end + 1, header_end, r.headers)

\* parse_http_request(raw_request, request): the return value and *request
parse_http_request(raw) ==
    LET fail(req) == [result |-> -1, request |-> req]
        r0 == init_http_request
        header_end == find_header_end(raw)
        line_end == find_request_line_end(raw)
    IN  IF header_end = 0 THEN fail(r0)
        ELSE IF line_end = 0 THEN fail(r0)
        ELSE
          LET request_line == copy_line(raw, 1, line_end)
              t1 == strtok(request_line, 1)
              t2 == strtok(request_line, t1.next)
              t3 == strtok(request_line, t2.next)
              r1 == [r0 EXCEPT !.method = strncpy(t1.token, MAX_METHOD_SIZE - 1)]
              r2 == [r1 EXCEPT !.uri = strncpy(t2.token, MAX_URI_SIZE - 1)]
              r3 == [r2 EXCEPT !.version = strncpy(t3.token, MAX_VERSION_SIZE - 1)]
          IN  IF t1.start = 0 THEN fail(r0)
              ELSE IF t2.start = 0 THEN fail(r1)
              ELSE IF t3.start = 0 THEN fail(r2)
              ELSE LET h == parse_headers(raw, line_end + 1, header_end, <<>>)
                       r4 == [r3 EXCEPT !.headers = h.headers,
                                        !.header_count = Len(h.headers)]
                   IN  [result |-> h.result, request |-> r4]


(***************************************************************************)
(* Router (router.c)                                                       *)
(***************************************************************************)
\* headers[idx][0] = key, headers[idx][1] = value (idx counted from 0)
set_header(headers, idx, key, value) ==
    [i \in 1..(IF Len(headers) > idx THEN Len(headers) ELSE idx + 1) |->
        IF i = idx + 1 THEN <<key, value>>
        ELSE IF i <= Len(headers) THEN headers[i] ELSE <<"", "">>]

\* the body every fixed-text handler sets: status, strdup(text), strlen, one header
text_response(resp, status, text, content_type) ==
    [resp EXCEPT !.status_code = status,
                 !.body = Buf(text),
                 !.body_length = Len(text),
                 !.headers = set_header(resp.headers, 0, "Content-Type", content_type),
                 !.header_count = 1]

handle_home_page(resp) ==
    text_response(resp, 200,
        "<html><body><h1>Welcome to our HTTP Server!</h1></body></html>", "text/html")

handle_hello_page(resp) == text_response(resp, 200, "Hello, World!", "text/plain")

handle_not_found(resp) == text_response(resp, 404, "Page not found", "text/plain")

\* register_route without the capacity test
register_route_unchecked(table, count, path, handler) ==
    [routes |-> [i \in 1..(IF Len(table) > count THEN Len(table) ELSE count + 1) |->
                    IF i = count + 1 THEN [path |-> path, handler |-> handler]
                    ELSE table[i]],
     route_count |-> count + 1]

\* register_route(path, handler): the table and the count after the call
register_route(table, count, path, handler) ==
    IF count < MAX_ROUTES
    THEN [routes |-> [i \in 1..(IF Len(table) > count THEN Len(table) ELSE count + 1) |->
                        IF i = count + 1 THEN [path |-> path, handler |-> handler]
                        ELSE table[i]],
          route_count |-> count + 1]
    ELSE [routes |-> table, route_count |-> count]

\* find_route keeping the last matching entry instead of returning at the first
find_route_last_match(table, count, uri) ==
    LET hits == {i \in 1..count : table[i].path = uri}
    IN  IF hits = {} THEN 0 ELSE CHOOSE i \in hits : \A j \in hits : j <= i

\* the loop of handle_route: index (from 1) of the entry whose handler runs, 0 if none
find_route(table, count, uri) ==
    LET hits == {i \in 1..count : table[i].path = uri}
    IN  IF hits = {} THEN 0 ELSE MinOf(hits)

(***************************************************************************)
(* Static resource resolver (file_server.c and supplements)                *)
(***************************************************************************)
Upper == "ABCDEFGHIJKLMNOPQRSTUVWXYZ"
Lower == "abcdefghijklmnopqrstuvwxyz"

tolower(c) ==
    LET k == strchr(Upper, 1, c) IN IF k = 0 THEN c ELSE CharAt(Lower, k)

\* strcasecmp(a, b) == 0
strcasecmp_eq(a, b) ==
    /\ Len(a) = Len(b)
    /\ \A i \in 1..Len(a) : tolower(CharAt(a, i)) = tolower(CharAt(b, i))

mime_types ==
    << <<".html", "text/html">>, <<".htm", "text/html">>, <<".css", "text/css">>,
       <<".js", "application/javascript">>, <<".json", "application/json">>,
       <<".png", "image/png">>, <<".jpg", "image/jpeg">>, <<".jpeg", "image/jpeg">>,
       <<".gif", "image/gif">>, <<".svg", "image/svg+xml">>, <<".txt", "text/plain">>,
       <<".pdf", "application/pdf">> >>

get_mime_type(filename) ==
    LET dot == strrchr(filename, ".")
        extension == SubSeq(filename, dot, Len(filename))
        hits == {i \in 1..Len(mime_types) : strcasecmp_eq(extension, mime_types[i][1])}
    IN  IF dot = 0 \/ hits = {} THEN "application/octet-stream"
        ELSE mime_types[MinOf(hits)][2]

is_safe_path(path) ==
    IF strstr(path, "..") # 0 THEN FALSE
    ELSE IF strstr(path, "//") # 0 THEN FALSE
    ELSE TRUE

get_default_file_path(uri) == IF uri = "/" THEN "/index.html" ELSE uri

construct_full_path(base_dir, file_path) == Buf(base_dir \o file_path)

\* build_file_path(uri): NULL or the malloc'ed candidate path
build_file_path(uri) ==
    IF ~is_safe_path(uri) THEN NULL
    ELSE construct_full_path(DOCUMENT_ROOT, get_default_file_path(uri))

\* validate_file(file_path, &st): 0 when stat succeeds on a regular file
validate_file(e) == IF e.st = "regular" THEN 0 ELSE -1

\* what a read that returns less than st_size (or -1) leaves in the buffer
short_read(content) ==
    IF Len(content) > 0 THEN SubSeq(content, 1, Len(content) - 1) ELSE ""

\* read_file_content(path, st_size, &bytes_read): the buffer returned (NULL on a failed
\* open, a NULL malloc or a read that does not return st_size) and the calls it made
read_file_content(path, e) ==
    IF e.rd = "open_fail"
    THEN [content |-> NULL, calls |-> <<[call |-> "open", path |-> path]>>, heap |-> <<>>]
    ELSE IF e.rd = "malloc_null"
    THEN [content |-> NULL, calls |-> <<[call |-> "open", path |-> path]>>, heap |-> <<>>]
    ELSE IF e.rd = "short"
    THEN [content |-> NULL,
          calls |-> <<[call |-> "open", path |-> path], [call |-> "read", path |-> path]>>,
          heap |-> allocated(Buf(short_read(e.content)), "read_file_content")
                   \o <<[ev |-> "free", buf |-> Buf(short_read(e.content)),
                         by |-> "read_file_content"]>>]
    ELSE [content |-> Buf(e.content),
          calls |-> <<[call |-> "open", path |-> path], [call |-> "read", path |-> path]>>,
          heap |-> allocated(Buf(e.content), "read_file_content")]

set_static_file_headers(resp, file_path) ==
    LET h1 == set_header(resp.headers, resp.header_count,
                         "Content-Type", get_mime_type(file_path))
        h2 == set_header(h1, resp.header_count + 1, "Cache-Control", "public, max-age=3600")
    IN  [resp EXCEPT !.headers = h2, !.header_count = resp.header_count + 2]

\* serve_static_file_handler(request, response): *response after it, the
\* filesystem calls it made and its heap history
serve_static_file_handler(req, resp, e) ==
    LET file_path == build_file_path(req.uri)
        by == "serve_static_file_handler"
    IN  IF file_path = NULL
        THEN [response |-> text_response(resp, 404, "File not found", "text/plain"),
              calls |-> <<>>,
              heap |-> allocated(Buf("File not found"), by)]
        ELSE LET path == Bytes(file_path)
                 stat == <<[call |-> "stat", path |-> path]>>
             IN  IF validate_file(e) # 0
                 THEN [response |-> text_response(resp, 404, "File not found", "text/plain"),
                       calls |-> stat,
                       heap |-> allocated(Buf("File not found"), by)]
                 ELSE LET rd == read_file_content(path, e)
                      IN  IF rd.content = NULL
                          THEN [response |-> text_response(resp, 500, "Internal server error",
                                                           "text/plain"),
                                calls |-> stat \o rd.calls,
                                heap |-> rd.heap
                                         \o allocated(Buf("Internal server error"), by)]
                          ELSE [response |->
                                  set_static_file_headers(
                                      [resp EXCEPT !.body = rd.content,
                                                   !.body_length = Len(Bytes(rd.content)),
                                                   !.status_code = 200],
                                      path),
                                calls |-> stat \o rd.calls,
                                heap |-> rd.heap]

\* serve_static_file(uri, response): the dummy request it builds
dummy_request(uri) == [init_http_request EXCEPT !.uri = strncpy(uri, MAX_URI_SIZE - 1)]

(***************************************************************************)
(* Response serializer (send_http_response_supplement.c, http_parser.c)     *)
(***************************************************************************)
status_text(status_code) ==
    IF status_code = 404 THEN "Not Found"
    ELSE IF status_code = 500 THEN "Internal Server Error"
    ELSE "OK"

\* update_status_line: the one write it makes
update_status_line(resp) ==
    <<"HTTP/1.1 " \o ToString(resp.status_code) \o " " \o status_text(resp.status_code)
        \o "\r\n">>

\* update_headers: one write per stored header, in stored order
update_headers(resp) ==
    [i \in 1..resp.header_count |-> resp.headers[i][1] \o ": " \o resp.headers[i][2] \o "\r\n"]

\* update_content_length testing the body pointer only
update_content_length_any_body(resp) ==
    IF resp.body # NULL
    THEN <<"Content-Length: " \o ToString(resp.body_length) \o "\r\n">>
    ELSE <<>>

\* update_content_length: one write when a non-empty body is present, none otherwise
update_content_length(resp) ==
    IF resp.body # NULL /\ resp.body_length > 0
    THEN <<"Content-Length: " \o ToString(resp.body_length) \o "\r\n">>
    ELSE <<>>

\* add_headers writing the Content-Length line ahead of the stored headers
add_headers_length_first(resp) ==
    update_content_length(resp) \o update_headers(resp) \o <<"\r\n">>

\* add_headers: the stored headers, the Content-Length line, then the blank line
add_headers(resp) == update_headers(resp) \o update_content_length(resp) \o <<"\r\n">>

\* write_body: write(client_fd, body, body_length)
write_body(resp) ==
    IF resp.body # NULL /\ resp.body_length > 0
    THEN <<SubSeq(Bytes(resp.body), 1, resp.body_length)>>
    ELSE <<>>

\* the heap history of send_http_response: write_body's write reads the body
body_read(resp) ==
    IF resp.body # NULL /\ resp.body_length > 0
    THEN <<[ev |-> "use", buf |-> resp.body, by |-> "write_body"]>>
    ELSE <<>>

\* send_http_response: every write(client_fd, buf, n) it requests, in order
send_http_response(resp) == update_status_line(resp) \o add_headers(resp) \o write_body(resp)

(***************************************************************************)
(* Connection driver (server.c)                                            *)
(***************************************************************************)
handle_method_not_allowed(resp) == text_response(resp, 405, "Method not allowed", "text/plain")

handle_bad_request(resp) == text_response(resp, 400, "Bad request", "text/plain")

\* a call through routes[i].handler
call_handler(handler, req, resp, e) ==
    IF handler = "handle_home_page"
    THEN [response |-> handle_home_page(resp), calls |-> <<>>,
          heap |-> allocated(handle_home_page(resp).body, handler)]
    ELSE IF handler = "handle_hello_page"
    THEN [response |-> handle_hello_page(resp), calls |-> <<>>,
          heap |-> allocated(handle_hello_page(resp).body, handler)]
    ELSE serve_static_file_handler(req, resp, e)

\* handle_route(request, response): the handler it runs (index 0: the not-found
\* fallback, which is no table entry) and what that handler leaves
handle_route(table, count, req, resp, e) ==
    LET i == find_route(table, count, req.uri)
    IN  IF i # 0
        THEN LET r == call_handler(table[i].handler, req, resp, e)
             IN  [response |-> r.response, calls |-> r.calls,
                  invoked |-> <<[index |-> i, handler |-> table[i].handler]>>,
                  heap |-> r.heap]
        ELSE [response |-> handle_not_found(resp), calls |-> <<>>,
              invoked |-> <<[index |-> 0, handler |-> "handle_not_found"]>>,
              heap |-> allocated(handle_not_found(resp).body, "handle_not_found")]

\* handle_good_request routing every method
handle_good_request_any_method(table, count, req, resp, e) ==
    handle_route(table, count, req, resp, e)

handle_good_request(table, count, req, resp, e) ==
    IF req.method = "GET" THEN handle_route(table, count, req, resp, e)
    ELSE [response |-> handle_method_not_allowed(resp), calls |-> <<>>, invoked |-> <<>>,
          heap |-> allocated(handle_method_not_allowed(resp).body,
                             "handle_method_not_allowed")]

\* the branch of handle_request on parse_http_request's result (server.c:55-59)
handle_parse_result(table, count, p, e) ==
    IF p.result = 0
    THEN handle_good_request(table, count, p.request, init_http_response, e)
    ELSE [response |-> handle_bad_request(init_http_response), calls |-> <<>>,
          invoked |-> <<>>,
          heap |-> allocated(handle_bad_request(init_http_response).body,
                             "handle_bad_request")]

(***************************************************************************)
(* Inputs                                                                  *)
(***************************************************************************)
\* n copies of s
RECURSIVE Rep(_, _)
Rep(s, n) ==
    IF n = 0 THEN ""
    ELSE LET h == Rep(s, n \div 2) IN h \o h \o (IF n % 2 = 1 THEN s ELSE "")

\* the filesystem's answers: stat's verdict on the candidate path, the file's bytes,
\* and how open/malloc/read go
NoEnv == [st |-> "none", content |-> "", rd |-> "none"]
FileContents == {"", "<p>hi</p>"}
ReadOutcomes == {"full", "short", "open_fail", "malloc_null"}
Envs ==
    {[st |-> s, content |-> "", rd |-> "full"] : s \in {"absent", "directory"}}
    \cup {[st |-> "regular", content |-> c, rd |-> r] : c \in FileContents, r \in ReadOutcomes}

\* the filesystems the server specification runs under
ServerEnvs ==
    {[st |-> "absent", content |-> "", rd |-> "full"],
     [st |-> "regular", content |-> "", rd |-> "full"],
     [st |-> "regular", content |-> "<p>hi</p>", rd |-> "full"],
     [st |-> "regular", content |-> "<p>hi</p>", rd |-> "short"]}

\* register_route arguments the server specification draws from
RouteChoices ==
    { <<"/", "handle_home_page">>, <<"/", "handle_hello_page">>,
      <<"/hello", "handle_hello_page">>, <<"/site.css", "serve_static_file_handler">>,
      <<"/../secret", "serve_static_file_handler">>,
      <<"-old/secret", "serve_static_file_handler">> }

\* the arguments of the k-th register_route call of the router specification: a
\* path of its own, or "/" again for the first calls and for the calls made once
\* the table is full
RouterPath(k) == "/r" \o ToString(k)
RouterChoices(k) ==
    { <<RouterPath(k), "handle_hello_page">> }
    \cup (IF k <= 2 \/ k > MAX_ROUTES THEN { <<"/", "handle_home_page">> } ELSE {})

\* the URIs handle_route is given in the router specification
RouterUris ==
    {"/", RouterPath(2), RouterPath(MAX_ROUTES), RouterPath(MAX_ROUTES + 1), "/missing"}

\* raw requests the server specification draws from
ServerRequests ==
    { "GET / HTTP/1.1\r\nHost: x\r\n\r\n",
      "GET /hello HTTP/1.1\r\n\r\n",
      "GET /hello?name=a HTTP/1.1\r\n\r\n",
      "GET /missing HTTP/1.1\r\n\r\n",
      "GET /site.css HTTP/1.1\r\n\r\n",
      "GET /../secret HTTP/1.1\r\n\r\n",
      "GET -old/secret HTTP/1.1\r\n\r\n",
      "POST / HTTP/1.1\r\n\r\n",
      "get / HTTP/1.1\r\n\r\n",
      "GET / HTTP/1.1\r\nNoColon\r\n\r\n",
      "GET /\r\n\r\n",
      "GET / HTTP/1.1\r\nHost: x\r\n" }

\* raw requests the parser specification draws from: request lines x line ends x
\* header blocks x terminators
Methods == {"GET", "POST", Rep("M", MAX_METHOD_SIZE - 1), Rep("M", MAX_METHOD_SIZE)}
Uris ==
    {"/", "/hello?a=b", "x", "/a/../b",
     "/" \o Rep("u", MAX_URI_SIZE - 2), "/" \o Rep("u", MAX_URI_SIZE - 1)}
Versions == {"HTTP/1.1", Rep("V", MAX_VERSION_SIZE)}
RequestLines ==
    {m \o " " \o u \o " " \o v : m \in Methods, u \in Uris, v \in Versions}
    \cup {"", "GET", "GET /", "GET  /  HTTP/1.1", " GET / HTTP/1.1", "GET / HTTP/1.1 extra"}
EOLs == {"\r\n", "\n"}
HeaderLines == {"Host: x", "a:b", "k:\t v", "X", "NoColon", ":"}
RECURSIVE BlocksOf(_)
BlocksOf(n) ==
    IF n = 0 THEN {""}
    ELSE {l \o e \o b : l \in HeaderLines, e \in EOLs, b \in BlocksOf(n - 1)}
HeaderBlocks ==
    UNION {BlocksOf(n) : n \in 0..MaxHeaderLines}
    \cup {Rep("a:b" \o e, n) : e \in EOLs, n \in {MAX_HEADERS, MAX_HEADERS + 1}}
    \cup {Rep("a:b\r\n", MAX_HEADERS) \o "NoColon\r\n"}
Terminators == {"\r\n", "\n", "", "\r\nbody"}
RawRequests ==
    {l \o e \o b \o t : l \in RequestLines, e \in EOLs, b \in {"", "Host: x\r\n"},
                        t \in Terminators}
    \cup {"GET / HTTP/1.1" \o e \o b \o t : e \in EOLs, b \in HeaderBlocks, t \in Terminators}

\* serve_static_file arguments; LongDir is a path of MAX_URI_SIZE - 4 bytes whose
\* components are short enough to exist on a filesystem
LongDir == Rep("/" \o Rep("u", 254), (MAX_URI_SIZE - 4) \div 255)
StaticUris ==
    {"/", "/index.html", "/site.css", "/IMG.PNG", "/noext", "/..", "/a/../b", "/a//b",
     "x", "-old/secret",
     LongDir \o "/xy",
     LongDir \o "/x..",
     LongDir \o "/xy//z"}

\* responses handed to send_http_response: what each handler of the repository
\* leaves, and responses populated by hand after init_http_response
HandlerResponses ==
    {handle_home_page(init_http_response), handle_hello_page(init_http_response),
     handle_not_found(init_http_response), handle_method_not_allowed(init_http_response),
     handle_bad_request(init_http_response)}
    \cup {serve_static_file_handler(dummy_request(u), init_http_response, e).response :
            u \in StaticUris, e \in Envs}
StatusCodes == {200, 201, 204, 302, 400, 404, 405, 500}
Bodies ==
    {[body |-> NULL, body_length |-> 0], [body |-> Buf(""), body_length |-> 0],
     [body |-> Buf("abc"), body_length |-> 0], [body |-> Buf("abc"), body_length |-> 2],
     [body |-> Buf("abc"), body_length |-> 3]}
HeaderLists == {<<>>, << <<"Content-Type", "text/plain">>, <<"X-A", "1">> >>}
Responses ==
    HandlerResponses
    \cup {[status_code |-> c, headers |-> h, header_count |-> Len(h),
           body |-> b.body, body_length |-> b.body_length] :
            c \in StatusCodes, h \in HeaderLists, b \in Bodies}

\* request instances handed to free_http_request: never populated, filled in by
\* the parser (which stores no body), and one given a body by its owner
DestructorRequests ==
    {init_http_request}
    \cup {parse_http_request(raw).request : raw \in ServerRequests}
    \cup {[parse_http_request("POST / HTTP/1.1\r\n\r\n").request
             EXCEPT !.body = Buf("a=1"), !.body_length = 3]}

(***************************************************************************)
(* The server: setup_routes-style registration, then handle_request per    *)
(* connection                                                              *)
(***************************************************************************)
Init ==
    /\ routes = <<>> /\ route_count = 0
    /\ pc = "idle" /\ op = "none"
    /\ raw_request = "" /\ uri_arg = "" /\ env = NoEnv /\ parse_result = 1
    /\ request = init_http_request /\ response = init_http_response
    /\ wire = <<>> /\ invoked = <<>> /\ fs_calls = <<>> /\ freed = <<>>
    /\ registered = <<>> /\ heap = <<>>

RegisterRoute ==
    /\ pc # "called"
    /\ route_count < MaxRegistrations
    /\ \E c \in RouteChoices :
         LET r == register_route(routes, route_count, c[1], c[2])
         IN  /\ routes' = r.routes
             /\ route_count' = r.route_count
             /\ registered' = Append(registered, [path |-> c[1], handler |-> c[2]])
    /\ pc' = "returned" /\ op' = "register_route"
    /\ raw_request' = "" /\ uri_arg' = "" /\ env' = NoEnv /\ parse_result' = 1
    /\ request' = init_http_request /\ response' = init_http_response
    /\ wire' = <<>> /\ invoked' = <<>> /\ fs_calls' = <<>> /\ freed' = <<>>
    /\ heap' = <<>>

\* handle_request(client_fd, raw_request): init_http_response, parse_http_request,
\* the handler for its result, send_http_response, then the two destructors.
\* request and response are locals of handle_request: the variables keep them as
\* they were when send_http_response ran.
HandleRequest ==
    /\ pc # "called"
    /\ \E raw \in ServerRequests, e \in ServerEnvs :
         \E p \in {parse_http_request(raw)} :
           \E r \in {handle_parse_result(routes, route_count, p, e)} :
             LET static == \E k \in 1..Len(r.invoked) :
                              r.invoked[k].handler = "serve_static_file_handler"
             IN  /\ raw_request' = raw
                 /\ env' = IF static THEN e ELSE NoEnv
                 /\ parse_result' = p.result
                 /\ request' = p.request
                 /\ response' = r.response
                 /\ wire' = send_http_response(r.response)
                 /\ invoked' = r.invoked
                 /\ fs_calls' = r.calls
                 /\ freed' = free_http_request(p.request).freed
                                \o free_http_response(r.response).freed
                 /\ heap' = r.heap
                            \o body_read(r.response)
                            \o destructor_call("free_http_request", p.request.body,
                                               free_http_request(p.request).freed)
                            \o destructor_call("free_http_response", r.response.body,
                                               free_http_response(r.response).freed)
    /\ pc' = "returned" /\ op' = "handle_request"
    /\ uri_arg' = ""
    /\ UNCHANGED <<routes, route_count, registered>>

Next == RegisterRoute \/ HandleRequest

Spec == Init /\ [][Next]_vars

(***************************************************************************)
(* parse_http_request applied to one raw request                           *)
(***************************************************************************)
InitParser ==
    /\ routes = <<>> /\ route_count = 0
    /\ pc = "called" /\ op = "parse_http_request"
    /\ raw_request \in RawRequests
    /\ uri_arg = "" /\ env = NoEnv /\ parse_result = 1
    /\ request = init_http_request /\ response = init_http_response
    /\ wire = <<>> /\ invoked = <<>> /\ fs_calls = <<>> /\ freed = <<>>
    /\ registered = <<>> /\ heap = <<>>

ParseHttpRequest ==
    /\ pc = "called" /\ op = "parse_http_request"
    /\ LET p == parse_http_request(raw_request)
       IN  /\ parse_result' = p.result
           /\ request' = p.request
    /\ pc' = "returned"
    /\ UNCHANGED <<routes, route_count, op, raw_request, uri_arg, env, response, wire,
                   invoked, fs_calls, freed, registered, heap>>

NextParser == ParseHttpRequest

SpecParser == InitParser /\ [][NextParser]_vars

(***************************************************************************)
(* serve_static_file applied to one URI under one filesystem               *)
(***************************************************************************)
InitStatic ==
    /\ routes = <<>> /\ route_count = 0
    /\ pc = "called" /\ op = "serve_static_file"
    /\ uri_arg \in StaticUris
    /\ env \in Envs
    /\ raw_request = "" /\ parse_result = 1
    /\ request = init_http_request /\ response = init_http_response
    /\ wire = <<>> /\ invoked = <<>> /\ fs_calls = <<>> /\ freed = <<>>
    /\ registered = <<>> /\ heap = <<>>

ServeStaticFile ==
    /\ pc = "called" /\ op = "serve_static_file"
    /\ LET req == dummy_request(uri_arg)
           r == serve_static_file_handler(req, response, env)
       IN  /\ request' = req
           /\ response' = r.response
           /\ fs_calls' = r.calls
           /\ invoked' = <<[index |-> 0, handler |-> "serve_static_file_handler"]>>
           /\ heap' = r.heap
    /\ pc' = "returned"
    /\ UNCHANGED <<routes, route_count, op, raw_request, uri_arg, env, parse_result, wire,
                   freed, registered>>

NextStatic == ServeStaticFile

SpecStatic == InitStatic /\ [][NextStatic]_vars

(***************************************************************************)
(* send_http_response applied to one response                              *)
(***************************************************************************)
InitSerializer ==
    /\ routes = <<>> /\ route_count = 0
    /\ pc = "called" /\ op = "send_http_response"
    /\ response \in Responses
    /\ raw_request = "" /\ uri_arg = "" /\ env = NoEnv /\ parse_result = 1
    /\ request = init_http_request
    /\ wire = <<>> /\ invoked = <<>> /\ fs_calls = <<>> /\ freed = <<>>
    /\ registered = <<>> /\ heap = <<>>

SendHttpResponse ==
    /\ pc = "called" /\ op = "send_http_response"
    /\ wire' = send_http_response(response)
    /\ pc' = "returned"
    /\ UNCHANGED <<routes, route_count, op, raw_request, uri_arg, env, parse_result,
                   request, response, invoked, fs_calls, freed, registered, heap>>

NextSerializer == SendHttpResponse

SpecSerializer == InitSerializer /\ [][NextSerializer]_vars

(***************************************************************************)
(* The router: register_route and handle_route called in any order         *)
(***************************************************************************)
InitRouter ==
    /\ routes = <<>> /\ route_count = 0
    /\ pc = "idle" /\ op = "none"
    /\ raw_request = "" /\ uri_arg = "" /\ env = NoEnv /\ parse_result = 1
    /\ request = init_http_request /\ response = init_http_response
    /\ wire = <<>> /\ invoked = <<>> /\ fs_calls = <<>> /\ freed = <<>>
    /\ registered = <<>> /\ heap = <<>>

RegisterRouteCall ==
    /\ Len(registered) < MaxRegisterCalls
    /\ \E c \in RouterChoices(Len(registered) + 1) :
         LET r == register_route(routes, route_count, c[1], c[2])
         IN  /\ routes' = r.routes
             /\ route_count' = r.route_count
             /\ registered' = Append(registered, [path |-> c[1], handler |-> c[2]])
    /\ pc' = "returned" /\ op' = "register_route"
    /\ request' = init_http_request /\ response' = init_http_response
    /\ invoked' = <<>> /\ fs_calls' = <<>> /\ heap' = <<>>
    /\ UNCHANGED <<raw_request, uri_arg, env, parse_result, wire, freed>>

\* handle_route(request, response) on a request with the given URI and a response
\* fresh from init_http_response
HandleRouteCall ==
    /\ \E u \in RouterUris :
         LET req == [init_http_request EXCEPT !.method = "GET", !.uri = u,
                                              !.version = "HTTP/1.1"]
             r == handle_route(routes, route_count, req, init_http_response, NoEnv)
         IN  /\ request' = req
             /\ response' = r.response
             /\ invoked' = r.invoked
             /\ fs_calls' = r.calls
             /\ heap' = r.heap
    /\ pc' = "returned" /\ op' = "handle_route"
    /\ UNCHANGED <<routes, route_count, registered, raw_request, uri_arg, env,
                   parse_result, wire, freed>>

NextRouter == RegisterRouteCall \/ HandleRouteCall

SpecRouter == InitRouter /\ [][NextRouter]_vars

(***************************************************************************)
(* Buffer lifetimes: handle_request once the routes are registered, and the *)
(* destructors called by an owner on an instance it holds, once or again    *)
(***************************************************************************)
\* the register_route calls made before serving: the two of setup_routes, then
\* the static handler for a file and for a path build_file_path refuses
LifetimeRegistrations ==
    << [path |-> "/", handler |-> "handle_home_page"],
       [path |-> "/hello", handler |-> "handle_hello_page"],
       [path |-> "/site.css", handler |-> "serve_static_file_handler"],
       [path |-> "/../secret", handler |-> "serve_static_file_handler"] >>

RECURSIVE registered_table(_)
registered_table(calls) ==
    IF calls = <<>> THEN [routes |-> <<>>, route_count |-> 0]
    ELSE LET t == registered_table(SubSeq(calls, 1, Len(calls) - 1))
             c == calls[Len(calls)]
         IN  register_route(t.routes, t.route_count, c.path, c.handler)

InitLifetime ==
    /\ routes = registered_table(LifetimeRegistrations).routes
    /\ route_count = registered_table(LifetimeRegistrations).route_count
    /\ registered = LifetimeRegistrations
    /\ pc = "idle" /\ op = "none"
    /\ raw_request = "" /\ uri_arg = "" /\ env = NoEnv /\ parse_result = 1
    /\ request = init_http_request /\ response = init_http_response
    /\ wire = <<>> /\ invoked = <<>> /\ fs_calls = <<>> /\ freed = <<>> /\ heap = <<>>

\* the positions in a heap history where the destructor was entered
Entries(log, by) == {k \in 1..Len(log) : log[k].ev = "enter" /\ log[k].by = by}

\* free_http_request(&request): on the instance the last call left, or on a
\* fresh one whose body, if any, its owner allocated
FreeHttpRequest ==
    /\ \E inst \in (IF op = "free_http_request"
                    THEN {[request |-> request, heap |-> heap]}
                    ELSE {[request |-> req,
                           heap |-> IF req.body # NULL THEN allocated(req.body, "owner")
                                    ELSE <<>>] : req \in DestructorRequests}) :
         /\ Cardinality(Entries(inst.heap, "free_http_request")) < MaxDestructorCalls
         /\ \E f \in {free_http_request(inst.request)} :
              /\ request' = f.request
              /\ freed' = f.freed
              /\ heap' = inst.heap
                         \o destructor_call("free_http_request", inst.request.body, f.freed)
    /\ pc' = "returned" /\ op' = "free_http_request"
    /\ raw_request' = "" /\ uri_arg' = "" /\ env' = NoEnv /\ parse_result' = 1
    /\ response' = init_http_response
    /\ wire' = <<>> /\ invoked' = <<>> /\ fs_calls' = <<>>
    /\ UNCHANGED <<routes, route_count, registered>>

\* free_http_response(&response): likewise
FreeHttpResponse ==
    /\ \E inst \in (IF op = "free_http_response"
                    THEN {[response |-> response, heap |-> heap]}
                    ELSE {[response |-> resp,
                           heap |-> IF resp.body # NULL THEN allocated(resp.body, "owner")
                                    ELSE <<>>] : resp \in Responses}) :
         /\ Cardinality(Entries(inst.heap, "free_http_response")) < MaxDestructorCalls
         /\ \E f \in {free_http_response(inst.response)} :
              /\ response' = f.response
              /\ freed' = f.freed
              /\ heap' = inst.heap
                         \o destructor_call("free_http_response", inst.response.body, f.freed)
    /\ pc' = "returned" /\ op' = "free_http_response"
    /\ raw_request' = "" /\ uri_arg' = "" /\ env' = NoEnv /\ parse_result' = 1
    /\ request' = init_http_request
    /\ wire' = <<>> /\ invoked' = <<>> /\ fs_calls' = <<>>
    /\ UNCHANGED <<routes, route_count, registered>>

NextLifetime == HandleRequest \/ FreeHttpRequest \/ FreeHttpResponse

SpecLifetime == InitLifetime /\ [][NextLifetime]_vars

(***************************************************************************)
(* Vocabulary of the properties, computed from the raw bytes alone          *)
(***************************************************************************)
HasSubstring(s, pat) ==
    \E i \in 1..(Len(s) - Len(pat) + 1) : SubSeq(s, i, i + Len(pat) - 1) = pat

StartsWith(s, prefix) == Len(s) >= Len(prefix) /\ SubSeq(s, 1, Len(prefix)) = prefix

\* the positions of the line feeds of raw: line n is the text between the line feed
\* before n and n, without a trailing carriage return
LineFeeds(raw) == {i \in 1..Len(raw) : CharAt(raw, i) = "\n"}

LineAt(raw, n) ==
    LET before == {m \in LineFeeds(raw) : m < n}
        start == IF before = {} THEN 1 ELSE (CHOOSE m \in before : \A k \in before : k <= m) + 1
        text == SubSeq(raw, start, n - 1)
    IN  IF Len(text) > 0 /\ CharAt(text, Len(text)) = "\r"
        THEN SubSeq(text, 1, Len(text) - 1) ELSE text

\* the header block: the lines after the request line and before the first blank line
HeaderBlock(raw) ==
    LET lf == LineFeeds(raw)
        first == CHOOSE m \in lf : \A k \in lf : m <= k
    IN  IF lf = {} THEN {}
        ELSE {n \in lf : /\ n > first
                         /\ \A m \in lf : (first < m /\ m <= n) => LineAt(raw, m) # ""}

HasBlankLineTerminator(raw) == HasSubstring(raw, "\r\n\r\n") \/ HasSubstring(raw, "\n\n")

\* the request line as METHOD SP URI SP VERSION: exactly two spaces, three non-empty tokens
RequestLine(raw) ==
    LET lf == LineFeeds(raw) IN LineAt(raw, CHOOSE m \in lf : \A k \in lf : m <= k)

Spaces(line) == {i \in 1..Len(line) : CharAt(line, i) = " "}

ThreeTokens(line) ==
    LET sp == Spaces(line)
        a == CHOOSE i \in sp : \A j \in sp : i <= j
        b == CHOOSE i \in sp : \A j \in sp : j <= i
    IN  IF Cardinality(sp) # 2 \/ a = 1 \/ b = a + 1 \/ b = Len(line) THEN <<>>
        ELSE <<SubSeq(line, 1, a - 1), SubSeq(line, a + 1, b - 1),
               SubSeq(line, b + 1, Len(line))>>

WellFormedRequest(raw) ==
    /\ LineFeeds(raw) # {}
    /\ HasBlankLineTerminator(raw)
    /\ ThreeTokens(RequestLine(raw)) # <<>>
    /\ Cardinality(HeaderBlock(raw)) <= MAX_HEADERS
    /\ \A n \in HeaderBlock(raw) : HasSubstring(LineAt(raw, n), ":")

\* the reason phrase of a status line "HTTP/1.1 <code> <phrase>\r\n"
ReasonPhrase(line, code) ==
    SubSeq(line, Len("HTTP/1.1 ") + Len(ToString(code)) + 2, Len(line) - 2)

\* the positions of the heap history that hold an event of one kind
Events(ev) == {k \in 1..Len(heap) : heap[k].ev = ev}

Destructors == {"free_http_request", "free_http_response"}

NoFileRead == \A k \in 1..Len(fs_calls) : fs_calls[k].call \notin {"open", "read"}

(***************************************************************************)
(* Properties                                                              *)
(***************************************************************************)

\* C1: for every URI that contains ".." or "//", serve_static_file leaves a 404
\* response and opens or reads no file, whatever the filesystem holds.
C1_UnsafeUriIs404AndReadsNothing ==
    (pc = "returned" /\ op = "serve_static_file"
        /\ (HasSubstring(uri_arg, "..") \/ HasSubstring(uri_arg, "//")))
    => (response.status_code = 404 /\ NoFileRead)

\* C2: every filesystem path the resolver builds from a URI the parser stored is
\* the document root followed by a path that starts with "/".
C2_CandidatePathInsideDocumentRoot ==
    (op = "handle_request" /\ parse_result = 0)
    => \A k \in 1..Len(fs_calls) : StartsWith(fs_calls[k].path, DOCUMENT_ROOT \o "/")

\* C3: a raw request whose header block holds a line without ":" makes
\* parse_http_request return -1.
C3_HeaderLineWithoutColonFails ==
    (pc = "returned" /\ op = "parse_http_request"
        /\ \E n \in HeaderBlock(raw_request) : ~HasSubstring(LineAt(raw_request, n), ":"))
    => parse_result = -1

\* C4: a raw request whose header block holds more than MAX_HEADERS lines makes
\* parse_http_request return -1, and the stored header count never exceeds MAX_HEADERS.
C4_TooManyHeadersFails ==
    (pc = "returned" /\ op = "parse_http_request")
    => /\ request.header_count <= MAX_HEADERS
       /\ Cardinality(HeaderBlock(raw_request)) > MAX_HEADERS => parse_result = -1

\* C5: a raw request that contains neither "\r\n\r\n" nor "\n\n" makes
\* parse_http_request return -1, whatever its request line and header lines are.
C5_NoBlankLineFails ==
    (pc = "returned" /\ op = "parse_http_request" /\ ~HasBlankLineTerminator(raw_request))
    => parse_result = -1

\* C5 witness: a request with a valid request line and a valid header, lacking only
\* the blank line, was rejected.
C5_Witness ==
    /\ pc = "returned" /\ op = "parse_http_request"
    /\ raw_request = "GET / HTTP/1.1\r\nHost: x\r\n"
    /\ parse_result = -1

\* C6: handle_request answers 400 exactly when parsing fails and 405 exactly when
\* parsing succeeds with a method other than GET; in both cases no handler of the
\* route table (nor the not-found fallback) runs, and dispatch is reached only by
\* a successfully parsed GET request.
C6_StatusClassifiedBeforeRouting ==
    op = "handle_request"
    => /\ (response.status_code = 400) <=> (parse_result # 0)
       /\ (response.status_code = 405) <=> (parse_result = 0 /\ request.method # "GET")
       /\ response.status_code \in {400, 405} => invoked = <<>>
       /\ invoked # <<>> => (parse_result = 0 /\ request.method = "GET")

\* C6 witness: a POST for a registered path was answered 405 and ran no handler.
C6_Witness ==
    /\ op = "handle_request"
    /\ raw_request = "POST / HTTP/1.1\r\n\r\n"
    /\ \E i \in 1..route_count : routes[i].path = request.uri
    /\ response.status_code = 405
    /\ invoked = <<>>

\* C7: when handle_request reaches dispatch, exactly one handler runs: the handler
\* of the lowest-index table entry whose path equals the request URI byte for byte,
\* or, when no entry matches, only the not-found fallback, which leaves the 404
\* plain-text response.
C7_FirstMatchDispatch ==
    (op = "handle_request" /\ parse_result = 0 /\ request.method = "GET")
    => LET matches == {i \in 1..route_count : routes[i].path = request.uri}
       IN  /\ Len(invoked) = 1
           /\ matches = {} =>
                /\ invoked[1] = [index |-> 0, handler |-> "handle_not_found"]
                /\ response.status_code = 404
                /\ response.body = Buf("Page not found")
                /\ response.headers = << <<"Content-Type", "text/plain">> >>
           /\ matches # {} =>
                /\ invoked[1].index \in matches
                /\ \A j \in matches : invoked[1].index <= j
                /\ invoked[1].handler = routes[invoked[1].index].handler
                /\ invoked[1].handler = "handle_home_page" =>
                       response.body =
                         Buf("<html><body><h1>Welcome to our HTTP Server!</h1></body></html>")
                /\ invoked[1].handler = "handle_hello_page" =>
                       response.body = Buf("Hello, World!")

\* C7 witness: "/" is registered twice with different handlers and a GET for it ran
\* the first-registered one only.
C7_Witness ==
    /\ op = "handle_request" /\ parse_result = 0 /\ request.uri = "/"
    /\ route_count = 2
    /\ routes[1].path = "/" /\ routes[2].path = "/"
    /\ routes[1].handler = "handle_hello_page" /\ routes[2].handler = "handle_home_page"
    /\ invoked = <<[index |-> 1, handler |-> "handle_hello_page"]>>
    /\ response.body = Buf("Hello, World!")

\* C8: the status line carries the reason phrase of the response's own status code:
\* "OK" is written only for status 200.
C8_OkOnlyFor200 ==
    (op = "handle_request" /\ Len(wire) > 0)
    => (ReasonPhrase(wire[1], response.status_code) = "OK" => response.status_code = 200)

\* C9: the serialized output holds a Content-Length line if and only if the body is
\* present with a length above 0; then it holds exactly one, before the blank line,
\* and its value is the number of body bytes written after the blank line.
C9_ContentLengthMatchesBody ==
    (pc = "returned" /\ op = "send_http_response")
    => LET blanks == {k \in 1..Len(wire) : wire[k] = "\r\n"}
           blank == CHOOSE k \in blanks : \A j \in blanks : k <= j
           lines == {k \in 1..Len(wire) :
                        k < blank /\ StartsWith(wire[k], "Content-Length:")}
           written == IF blank = Len(wire) THEN 0 ELSE Len(wire[Len(wire)])
       IN  /\ blanks # {}
           /\ Len(wire) <= blank + 1
           /\ (lines # {}) <=> (response.body # NULL /\ response.body_length > 0)
           /\ Cardinality(lines) <= 1
           /\ \A k \in lines :
                wire[k] = "Content-Length: " \o ToString(written) \o "\r\n"
           /\ lines = {} => written = 0

\* C9 witness: the 200 response of the static handler for a 9-byte file was
\* serialized with Content-Length: 9 and the 9 bytes after the blank line.
C9_Witness ==
    /\ pc = "returned" /\ op = "send_http_response"
    /\ response.status_code = 200 /\ response.header_count = 2
    /\ response.body = Buf("<p>hi</p>")
    /\ Len(wire) = 6
    /\ wire[4] = "Content-Length: 9\r\n" /\ wire[5] = "\r\n" /\ wire[6] = "<p>hi</p>"

\* C10: for a request line of three space-separated tokens followed by at most
\* MAX_HEADERS headers with a ":" and a blank line, parse_http_request returns 0
\* and stores the three tokens byte for byte.
C10_TokensStoredExactly ==
    (pc = "returned" /\ op = "parse_http_request" /\ WellFormedRequest(raw_request))
    => LET t == ThreeTokens(RequestLine(raw_request))
       IN  /\ parse_result = 0
           /\ request.method = t[1]
           /\ request.uri = t[2]
           /\ request.version = t[3]

\* C11: send_http_response writes the status line first, then one line per stored
\* header in stored order, then the Content-Length line when the body is present
\* and non-empty, then the blank line, then the body bytes last; every piece is
\* written once and nothing else is written.
C11_PiecesWrittenInOrder ==
    (pc = "returned" /\ op = "send_http_response")
    => LET n == response.header_count
           has_body == response.body # NULL /\ response.body_length > 0
           b == IF has_body THEN 1 ELSE 0
       IN  /\ Len(wire) = 1 + n + b + 1 + b
           /\ StartsWith(wire[1], "HTTP/1.1 " \o ToString(response.status_code) \o " ")
           /\ SubSeq(wire[1], Len(wire[1]) - 1, Len(wire[1])) = "\r\n"
           /\ \A i \in 1..n :
                wire[1 + i] = response.headers[i][1] \o ": " \o response.headers[i][2]
                                \o "\r\n"
           /\ has_body =>
                wire[n + 2] = "Content-Length: " \o ToString(response.body_length) \o "\r\n"
           /\ wire[n + b + 2] = "\r\n"
           /\ has_body =>
                wire[Len(wire)] = SubSeq(Bytes(response.body), 1, response.body_length)

\* C11 witness: a hand-populated 302 response with two stored headers and a
\* 3-byte body was serialized as six writes.
C11_Witness ==
    /\ pc = "returned" /\ op = "send_http_response"
    /\ response.status_code = 302
    /\ response.headers = << <<"Content-Type", "text/plain">>, <<"X-A", "1">> >>
    /\ response.body = Buf("abc") /\ response.body_length = 3
    /\ wire = <<"HTTP/1.1 302 OK\r\n", "Content-Type: text/plain\r\n", "X-A: 1\r\n",
                "Content-Length: 3\r\n", "\r\n", "abc">>

\* C12: after any sequence of register_route and handle_route calls the route table
\* holds exactly the first min(n, 50) registrations in call order, n being the
\* number of register_route calls made: route_count is min(n, 50), never above 50,
\* a registration made on a full table changes nothing and handle_route changes
\* neither the table nor the count.
C12_TableHoldsFirstRegistrations ==
    LET n == Len(registered)
        kept == IF n < 50 THEN n ELSE 50
    IN  /\ route_count = kept
        /\ route_count <= 50
        /\ Len(routes) = kept
        /\ \A i \in 1..kept : routes[i] = registered[i]

\* C12 witness: 52 registrations were made, the 51st for a path of its own, and a
\* handle_route call for that path then fell back to handle_not_found.
C12_Witness ==
    /\ op = "handle_route"
    /\ Len(registered) = 52
    /\ registered[51].path = request.uri
    /\ registered[52].path = "/"
    /\ invoked = <<[index |-> 0, handler |-> "handle_not_found"]>>
    /\ response.status_code = 404

\* C13: on every path through handle_request, and for an owner calling the
\* destructors once or again, every body buffer allocated is handed to free()
\* exactly once, after its allocation, and is never read after that; a destructor
\* that finds a body frees it and clears the pointer, one that finds none (a
\* never-populated instance, or a second call) frees nothing; the buffer of a
\* short read is freed inside read_file_content and is not the response body.
C13_BodyBuffersReleasedOnce ==
    /\ \A i \in Events("alloc") :
         /\ Cardinality({j \in Events("free") : heap[j].buf = heap[i].buf}) = 1
         /\ \A j \in Events("free") : heap[j].buf = heap[i].buf => j > i
    /\ \A j \in Events("free") :
         \E i \in Events("alloc") : i < j /\ heap[i].buf = heap[j].buf
    /\ \A k \in Events("use") :
         /\ \E i \in Events("alloc") : i < k /\ heap[i].buf = heap[k].buf
         /\ \A j \in Events("free") : heap[j].buf = heap[k].buf => j > k
    /\ \A k \in Events("enter") :
         IF heap[k].buf = NULL
         THEN k = Len(heap) \/ heap[k + 1].ev # "free"
         ELSE /\ k < Len(heap)
              /\ heap[k + 1] = [ev |-> "free", buf |-> heap[k].buf, by |-> heap[k].by]
              /\ k + 1 = Len(heap) \/ heap[k + 2].ev # "free"
    /\ \A j \in Events("free") :
         heap[j].by \in Destructors
         => j > 1 /\ heap[j - 1].ev = "enter" /\ heap[j - 1].by = heap[j].by
    /\ \A k, l \in Events("enter") :
         (k < l /\ heap[k].by = heap[l].by) => heap[l].buf = NULL
    /\ op = "free_http_request" => request.body = NULL
    /\ op = "free_http_response" => response.body = NULL
    /\ op = "handle_request" =>
         /\ Cardinality(Entries(heap, "free_http_request")) = 1
         /\ Cardinality(Entries(heap, "free_http_response")) = 1
         /\ response.body # NULL
         /\ \E i \in Events("alloc") : heap[i].buf = response.body
         /\ \A k \in Events("use") : heap[k].buf = response.body
    /\ \A j \in Events("free") :
         heap[j].by = "read_file_content"
         => /\ j > 1
            /\ heap[j - 1] = [ev |-> "alloc", buf |-> heap[j].buf, by |-> "read_file_content"]
            /\ response.body # heap[j].buf
            /\ response.status_code = 500

\* C13 witness: handle_request ran the static handler on a file whose read came
\* back short: the file buffer was freed inside read_file_content, the 500 body
\* was allocated, written, and freed by free_http_response, and free_http_request
\* found no body.
C13_Witness ==
    /\ op = "handle_request"
    /\ env.rd = "short"
    /\ response.status_code = 500
    /\ heap = <<[ev |-> "alloc", buf |-> Buf("<p>hi</p"), by |-> "read_file_content"],
                [ev |-> "free", buf |-> Buf("<p>hi</p"), by |-> "read_file_content"],
                [ev |-> "alloc", buf |-> Buf("Internal server error"),
                 by |-> "serve_static_file_handler"],
                [ev |-> "use", buf |-> Buf("Internal server error"), by |-> "write_body"],
                [ev |-> "enter", buf |-> NULL, by |-> "free_http_request"],
                [ev |-> "enter", buf |-> Buf("Internal server error"),
                 by |-> "free_http_response"],
                [ev |-> "free", buf |-> Buf("Internal server error"),
                 by |-> "free_http_response"]>>

====
